---------------------------- MODULE Spec2Model ----------------------------
(***************************************************************************)
(* Model of the "System Information" widget of linexin-center              *)
(* (z-system-information-widget.py): the view toggle, the background       *)
(* loads with their idle-callback hand-off to the GTK main loop, and the   *)
(* pure helpers (desktop environment / window manager detection,           *)
(* format_bytes).                                                          *)
(*                                                                         *)
(* Python strings are TLA+ strings; the helpers below compute the str      *)
(* methods the code calls character by character.                          *)
(***************************************************************************)
EXTENDS Integers, Sequences, FiniteSets, TLC

VARIABLES
    \* ---- widget attributes (LinexinSysInfoWidget) ----
    VTE_AVAILABLE,        \* module global set by the import loop
    current_view,         \* self.current_view
    button_label,         \* label of self.view_toggle_button
    visible_child,        \* visible child name of self.content_stack
    stack_children,       \* content_stack: child name -> widget added under it
    terminal_available,   \* self.terminal_available
    has_buffer,           \* hasattr(self, 'fastfetch_buffer')
    fastfetch_buffer,     \* self.fastfetch_buffer: its text, and (observation)
                          \* the run whose result the text is, 0 when none
    terminal,             \* what the Vte.Terminal shows and its child process
    info_listbox,         \* rows of self.info_listbox, in order
    \* ---- the machine the program runs on ----
    machine,              \* /etc/os-release, /version, and the gathering step
                          \* that raises on this machine ("none": none)
    \* ---- threads and the GLib main loop ----
    threads,              \* the threading.Thread objects started so far
    idle,                 \* pending GLib.idle_add sources, in order
    \* ---- observation (history) ----
    clicks,               \* number of toggle clicks handled
    ff_loads,             \* number of load_fastfetch_info calls
    info_loads,           \* number of load_system_info calls
    blocking,             \* set of [by, call]: blocking calls and who made them
    ui_writes,            \* set of [by, widget]: widget mutations and who made them
    scheduled,            \* run id -> number of idle_add calls the run made
    executed,             \* run id -> number of times the run's callback ran
    callback_by,          \* the threads that have run an idle callback
    \* ---- pure-function harness ----
    fn_pc,                \* "idle" | "ready" | "returned"
    fn_in,                \* the inputs the function is applied to
    fn_out                \* what it returned

widget_vars == <<VTE_AVAILABLE, current_view, button_label, visible_child,
                 stack_children, terminal_available, has_buffer,
                 fastfetch_buffer, terminal, info_listbox>>
loop_vars == <<machine, threads, idle>>
hist_vars == <<clicks, ff_loads, info_loads, blocking, ui_writes,
               scheduled, executed, callback_by>>
fn_vars == <<fn_pc, fn_in, fn_out>>
vars == <<widget_vars, loop_vars, hist_vars, fn_vars>>

---------------------------------------------------------------------------
(* Python str methods *)

UPPER == "ABCDEFGHIJKLMNOPQRSTUVWXYZ"
LOWER == "abcdefghijklmnopqrstuvwxyz"

CharAt(s, i) == SubSeq(s, i, i)

\* one character of str.lower()
LowerChar(c) ==
    IF \E i \in 1..Len(UPPER) : CharAt(UPPER, i) = c
    THEN CharAt(LOWER, CHOOSE i \in 1..Len(UPPER) : CharAt(UPPER, i) = c)
    ELSE c

\* one character of str.upper()
UpperChar(c) ==
    IF \E i \in 1..Len(LOWER) : CharAt(LOWER, i) = c
    THEN CharAt(UPPER, CHOOSE i \in 1..Len(LOWER) : CharAt(LOWER, i) = c)
    ELSE c

RECURSIVE StrLower(_)
\* str.lower()
StrLower(s) ==
    IF s = "" THEN ""
    ELSE LowerChar(CharAt(s, 1)) \o StrLower(SubSeq(s, 2, Len(s)))

\* str.capitalize(): first character upper-cased, the rest lower-cased
StrCapitalize(s) ==
    IF s = "" THEN ""
    ELSE UpperChar(CharAt(s, 1)) \o StrLower(SubSeq(s, 2, Len(s)))

\* t in s
StrContains(s, t) ==
    \E i \in 1..(Len(s) - Len(t) + 1) : SubSeq(s, i, i + Len(t) - 1) = t

\* s.find(t) as a 1-based index, 0 when absent
StrFind(s, t) ==
    IF StrContains(s, t)
    THEN CHOOSE i \in 1..(Len(s) - Len(t) + 1) :
            /\ SubSeq(s, i, i + Len(t) - 1) = t
            /\ \A j \in 1..(i - 1) : SubSeq(s, j, j + Len(t) - 1) # t
    ELSE 0

\* s.rfind(t) as a 1-based index, 0 when absent
StrRFind(s, t) ==
    IF StrContains(s, t)
    THEN CHOOSE i \in 1..(Len(s) - Len(t) + 1) :
            /\ SubSeq(s, i, i + Len(t) - 1) = t
            /\ \A j \in (i + 1)..(Len(s) - Len(t) + 1) :
                  SubSeq(s, j, j + Len(t) - 1) # t
    ELSE 0

IsSpace(c) == c \in {" ", "\n", "\t"}

RECURSIVE StrLStrip(_, _)
\* s.lstrip(chars), chars given as a set of characters
StrLStrip(s, cs) ==
    IF s # "" /\ CharAt(s, 1) \in cs
    THEN StrLStrip(SubSeq(s, 2, Len(s)), cs)
    ELSE s

RECURSIVE StrRStrip(_, _)
\* s.rstrip(chars)
StrRStrip(s, cs) ==
    IF s # "" /\ CharAt(s, Len(s)) \in cs
    THEN StrRStrip(SubSeq(s, 1, Len(s) - 1), cs)
    ELSE s

\* s.strip() and s.strip('"')
StrStrip(s) == StrRStrip(StrLStrip(s, {" ", "\n", "\t"}), {" ", "\n", "\t"})
StrStripQuote(s) == StrRStrip(StrLStrip(s, {"\""}), {"\""})

\* s.split(sep)[1] for a one-character sep that occurs in s
SplitSecond(s, sep) ==
    LET rest == SubSeq(s, StrFind(s, sep) + 1, Len(s))
        stop == StrFind(rest, sep)
    IN  IF stop = 0 THEN rest ELSE SubSeq(rest, 1, stop - 1)

\* s.split()[-1] for s with at least one non-blank character
SplitLastWord(s) ==
    LET t == StrRStrip(s, {" ", "\n", "\t"})
        starts == {i \in 1..Len(t) :
                      \A j \in i..Len(t) : ~IsSpace(CharAt(t, j))}
        first == CHOOSE i \in starts : \A k \in starts : i <= k
    IN  SubSeq(t, first, Len(t))

\* os.path.basename(p): what follows the last "/"
Basename(p) == SubSeq(p, StrRFind(p, "/") + 1, Len(p))

\* os.environ.get(name, default): env is a function from the set variables
EnvironGet(env, name, default) ==
    IF name \in DOMAIN env THEN env[name] ELSE default

\* every environment over the variables names with values in vals
Environments(names, vals) ==
    UNION {[D -> vals] : D \in SUBSET names}

\* the translated message _("Unknown") (untranslated locale)
Unknown == "Unknown"

---------------------------------------------------------------------------
(* get_desktop_environment *)

\* the variables in the order the loop tries them
DE_ENV_VARS == <<"XDG_CURRENT_DESKTOP", "DESKTOP_SESSION", "XDG_SESSION_DESKTOP">>

\* de_mapping, as (key, display name) pairs
de_mapping ==
    << <<"gnome", "GNOME">>, <<"kde", "KDE">>, <<"xfce", "Xfce">>,
       <<"mate", "MATE">>, <<"cinnamon", "Cinnamon">>, <<"lxde", "LXDE">>,
       <<"lxqt", "LXQt">>, <<"pantheon", "Pantheon">>, <<"budgie", "Budgie">>,
       <<"deepin", "Deepin">>, <<"unity", "Unity">>, <<"i3", "i3">>,
       <<"sway", "Sway">>, <<"awesome", "Awesome">>, <<"openbox", "Openbox">>,
       <<"fluxbox", "Fluxbox">>, <<"bspwm", "bspwm">>, <<"dwm", "dwm">>,
       <<"qtile", "Qtile">>, <<"herbstluftwm", "herbstluftwm">> >>

\* dict.get(key, default) on a table of pairs
DictGet(table, key, default) ==
    IF \E i \in 1..Len(table) : table[i][1] = key
    THEN table[CHOOSE i \in 1..Len(table) : table[i][1] = key][2]
    ELSE default

\* a mutant: the value is looked up without being lower-cased
DEValue_NoLower(env, name) == EnvironGet(env, name, "")

\* de = os.environ.get(env_var, '').lower()
DEValue(env, name) == StrLower(EnvironGet(env, name, ""))

RECURSIVE DELoop(_, _, _)
\* the for loop from its i-th variable on; reads are the variables consulted
DELoop(env, i, reads) ==
    IF i > Len(DE_ENV_VARS)
    THEN [value |-> Unknown, reads |-> reads]
    ELSE LET de == DEValue(env, DE_ENV_VARS[i])
         IN  IF de # ""
             THEN [value |-> DictGet(de_mapping, de, StrCapitalize(de)),
                   reads |-> Append(reads, DE_ENV_VARS[i])]
             ELSE DELoop(env, i + 1, Append(reads, DE_ENV_VARS[i]))

get_desktop_environment(env) == DELoop(env, 1, <<>>)

\* the values the environment variables take in the check
DEValues == {"", "GNOME", "xfce", "niri", "UNKNOWN"}

---------------------------------------------------------------------------
(* get_window_manager *)

\* wm_mapping (process name -> display name), in dictionary order
wm_mapping ==
    << <<"mutter", "Mutter">>, <<"kwin_x11", "KWin">>,
       <<"kwin_wayland", "KWin">>, <<"kwin", "KWin">>, <<"xfwm4", "Xfwm4">>,
       <<"openbox", "Openbox">>, <<"i3", "i3">>, <<"sway", "Sway">>,
       <<"awesome", "Awesome">>, <<"dwm", "DWM">>, <<"bspwm", "bspwm">>,
       <<"qtile", "Qtile">>, <<"herbstluftwm", "herbstluftwm">>,
       <<"fluxbox", "Fluxbox">>, <<"marco", "Marco">>,
       <<"metacity", "Metacity">>, <<"compiz", "Compiz">>,
       <<"enlightenment", "Enlightenment">>, <<"cwm", "CWM">>,
       <<"jwm", "JWM">> >>

(* The outcome of one subprocess.run(...): kind "ok" is exit code 0, "fail" a
   non-zero exit code, "missing" FileNotFoundError, "timeout"
   subprocess.TimeoutExpired (a SubprocessError), "denied" PermissionError
   (an OSError that is neither). *)
Raises(o) == o.kind \in {"missing", "timeout", "denied"}

\* a mutant: the handler leaves out subprocess.SubprocessError
Caught_OnlyMissing(kind) == kind = "missing"

\* except (subprocess.SubprocessError, FileNotFoundError)
Caught(kind) == kind \in {"missing", "timeout"}

\* dictionary iteration order: the entry after the i-th (0: before the first)
WMNextIndex(i) == IF i = 0 THEN 1 ELSE i + 1

RECURSIVE WMMatchFrom(_, _, _)
(* for wm_proc, wm_name in wm_mapping.items():
       if wm_proc in result.stdout: return wm_name
   i is the entry tried, n the number of entries still to try; "" when the
   loop ends without a return *)
WMMatchFrom(stdout, i, n) ==
    IF n = 0 \/ i < 1 \/ i > Len(wm_mapping) THEN ""
    ELSE IF StrContains(stdout, wm_mapping[i][1]) THEN wm_mapping[i][2]
    ELSE WMMatchFrom(stdout, WMNextIndex(i), n - 1)

\* the process stage: "return" with a value, "pass" to the next stage, "raise"
WMProcessStage(ps) ==
    IF Raises(ps)
    THEN [status |-> IF Caught(ps.kind) THEN "pass" ELSE "raise", value |-> ""]
    ELSE IF ps.kind = "ok"
         THEN LET name == WMMatchFrom(ps.stdout, WMNextIndex(0), Len(wm_mapping))
              IN  [status |-> IF name # "" THEN "return" ELSE "pass",
                   value |-> name]
         ELSE [status |-> "pass", value |-> ""]

\* the X11 stage; cmds are the commands it ran
WMX11Stage(env, xroot, xid) ==
    IF EnvironGet(env, "DISPLAY", "") = ""
    THEN [status |-> "pass", value |-> "", cmds |-> <<>>]
    ELSE IF Raises(xroot)
    THEN [status |-> IF Caught(xroot.kind) THEN "pass" ELSE "raise",
          value |-> "", cmds |-> <<"xprop -root">>]
    ELSE IF ~(xroot.kind = "ok" /\ StrContains(xroot.stdout, "window id"))
    THEN [status |-> "pass", value |-> "", cmds |-> <<"xprop -root">>]
    ELSE LET wm_id == SplitLastWord(xroot.stdout)
             ran == <<"xprop -root", "xprop -id " \o wm_id>>
         IN  IF Raises(xid)
             THEN [status |-> IF Caught(xid.kind) THEN "pass" ELSE "raise",
                   value |-> "", cmds |-> ran]
             ELSE IF ~(xid.kind = "ok" /\ StrContains(xid.stdout, "="))
             THEN [status |-> "pass", value |-> "", cmds |-> ran]
             ELSE LET wm_name ==
                          StrStripQuote(StrStrip(SplitSecond(xid.stdout, "=")))
                  IN  IF StrLower(wm_name) # "gnome shell"
                      THEN [status |-> "return", value |-> wm_name, cmds |-> ran]
                      ELSE [status |-> "pass", value |-> "", cmds |-> ran]

(* get_window_manager: the value returned, the stage whose return statement
   returned it (4: the final return), the commands run and whether an
   exception left the function *)
get_window_manager(env, ps, xroot, xid) ==
    LET wm == EnvironGet(env, "WINDOW_MANAGER", "")
    IN  IF wm # ""
        THEN [value |-> Basename(wm), stage |-> 1, cmds |-> <<>>,
              raised |-> FALSE]
        ELSE LET s2 == WMProcessStage(ps)
             IN  IF s2.status = "return"
                 THEN [value |-> s2.value, stage |-> 2, cmds |-> <<"ps aux">>,
                       raised |-> FALSE]
                 ELSE IF s2.status = "raise"
                 THEN [value |-> "", stage |-> 2, cmds |-> <<"ps aux">>,
                       raised |-> TRUE]
                 ELSE LET s3 == WMX11Stage(env, xroot, xid)
                          ran == <<"ps aux">> \o s3.cmds
                      IN  IF s3.status = "return"
                          THEN [value |-> s3.value, stage |-> 3, cmds |-> ran,
                                raised |-> FALSE]
                          ELSE IF s3.status = "raise"
                          THEN [value |-> "", stage |-> 3, cmds |-> ran,
                                raised |-> TRUE]
                          ELSE [value |-> Unknown, stage |-> 4, cmds |-> ran,
                                raised |-> FALSE]

\* the most processes a process listing holds in the check
MaxProcs == 2

\* the process names that may be running
ProcNames == {"bash", "sway", "i3bar", "kwin_wayland", "xfwm4", "mutter"}

RECURSIVE PsLines(_)
\* one line of `ps aux` per process: the user, the pid column, the command
PsLines(procs) ==
    IF procs = <<>> THEN ""
    ELSE "alice 4242 " \o Head(procs) \o "\n" \o PsLines(Tail(procs))

PsStdout(procs) == "USER PID COMMAND\n" \o PsLines(procs)

ProcLists == UNION {[1..n -> ProcNames] : n \in 0..MaxProcs}

ExceptionKinds == {"missing", "timeout", "denied"}

PsOutcomes ==
    {[kind |-> "ok", procs |-> p, stdout |-> PsStdout(p)] : p \in ProcLists}
    \cup {[kind |-> "fail", procs |-> <<>>, stdout |-> ""]}
    \cup {[kind |-> k, procs |-> <<>>, stdout |-> ""] : k \in ExceptionKinds}

XRootOutcomes ==
    {[kind |-> "ok",
      stdout |-> "_NET_SUPPORTING_WM_CHECK(WINDOW): window id # 0x600001\n"],
     [kind |-> "ok", stdout |-> "_NET_SUPPORTING_WM_CHECK:  no such atom.\n"],
     [kind |-> "fail", stdout |-> ""]}
    \cup {[kind |-> k, stdout |-> ""] : k \in ExceptionKinds}

XIdOutcomes ==
    {[kind |-> "ok", stdout |-> "_NET_WM_NAME(UTF8_STRING) = \"GNOME Shell\"\n"],
     [kind |-> "ok", stdout |-> "_NET_WM_NAME(UTF8_STRING) = \"IceWM 3.4\"\n"],
     [kind |-> "ok", stdout |-> "_NET_WM_NAME:  not found.\n"],
     [kind |-> "fail", stdout |-> ""]}
    \cup {[kind |-> k, stdout |-> ""] : k \in {"timeout", "denied"}}

WMEnvironments ==
    {e \in Environments({"WINDOW_MANAGER", "DISPLAY"},
                        {"", ":0", "/usr/bin/icewm"}) :
        /\ EnvironGet(e, "WINDOW_MANAGER", "") # ":0"
        /\ EnvironGet(e, "DISPLAY", "") # "/usr/bin/icewm"}


---------------------------------------------------------------------------
(* format_bytes

   A byte count n is held exactly as its base-1024 digits, least significant
   first, and the running bytes_value as a fixed-point number: whole holds the
   digits above the point (least significant first), frac the digits below it
   (most significant first).  Dividing a float by 1024.0 only changes its
   exponent, so for n < 2^53 this is the value the code computes, bit for bit;
   above that the int-to-float conversion may differ in the last place of a
   PB figure, which leaves the unit untouched. *)

Kilo == 1024

UNITS == <<"B", "KB", "MB", "GB", "TB">>

AllZero(ds) == \A i \in 1..Len(ds) : ds[i] = 0

\* a mutant: the comparison admits 1024.0 itself
LessThanKilo_Inclusive(v) ==
    \/ AllZero(Tail(v.whole))
    \/ /\ v.whole[1] = 0 /\ v.whole[2] = 1 /\ AllZero(Tail(Tail(v.whole)))
       /\ AllZero(v.frac)

\* bytes_value < 1024.0
LessThanKilo(v) == AllZero(Tail(v.whole))

\* bytes_value /= 1024.0
DivKilo(v) ==
    [whole |-> IF Len(v.whole) > 1 THEN Tail(v.whole) ELSE <<0>>,
     frac |-> <<v.whole[1]>> \o v.frac]

RECURSIVE Times10(_)
\* ten times a fraction: the integer part (carry) and the fraction left
Times10(f) ==
    IF f = <<>> THEN [carry |-> 0, digits |-> <<>>]
    ELSE LET r == Times10(Tail(f))
             p == Head(f) * 10 + r.carry
         IN  [carry |-> p \div Kilo, digits |-> <<p % Kilo>> \o r.digits]

RECURSIVE Increment(_)
\* whole + 1, with the carry rippling up
Increment(w) ==
    IF w = <<>> THEN <<1>>
    ELSE IF Head(w) + 1 < Kilo THEN <<Head(w) + 1>> \o Tail(w)
    ELSE <<0>> \o Increment(Tail(w))

(* f"{bytes_value:.1f}": the value rounded to one decimal, ties to the even
   last digit (the float is exact, so ties are real ties) *)
Format1f(v) ==
    LET t == Times10(v.frac)
        rest == t.digits
        above == /\ rest # <<>>
                 /\ \/ rest[1] > Kilo \div 2
                    \/ rest[1] = Kilo \div 2 /\ ~AllZero(Tail(rest))
        tie == rest # <<>> /\ rest[1] = Kilo \div 2 /\ AllZero(Tail(rest))
        up == above \/ (tie /\ t.carry % 2 = 1)
    IN  IF ~up THEN [whole |-> v.whole, tenth |-> t.carry]
        ELSE IF t.carry < 9 THEN [whole |-> v.whole, tenth |-> t.carry + 1]
        ELSE [whole |-> Increment(v.whole), tenth |-> 0]

RECURSIVE FormatBytesLoop(_, _)
\* the for loop from its i-th unit on, and the PB return after it
FormatBytesLoop(v, i) ==
    IF i > Len(UNITS) THEN [num |-> Format1f(v), unit |-> "PB"]
    ELSE IF LessThanKilo(v) THEN [num |-> Format1f(v), unit |-> UNITS[i]]
    ELSE FormatBytesLoop(DivKilo(v), i + 1)

format_bytes(n) == FormatBytesLoop([whole |-> n, frac |-> <<>>], 1)

\* the number of base-1024 digits of the byte counts in the check
MaxDigits == 6

\* the digits they are made of
ByteDigits == {0, 1, 256, 512, 1023}

---------------------------------------------------------------------------
(* clean_fastfetch_output and run_fastfetch *)

\* stands for the escape character \x1B, which TLA+ strings cannot hold
ESC == "^"

DIGITS == "0123456789"

RECURSIVE SkipWhile(_, _, _)
\* the first position from i on whose character is not in cs (Len(s)+1: none)
SkipWhile(s, i, cs) ==
    IF i <= Len(s) /\ CharAt(s, i) \in cs THEN SkipWhile(s, i + 1, cs) ELSE i

DigitChars == {CharAt(DIGITS, i) : i \in 1..Len(DIGITS)}

(* The end of a match of  \x1B\[ body* final  that starts at i, 0 when there
   is none: body is the character class, final the closing characters. *)
MatchEnd(s, i, body, final) ==
    IF i + 1 <= Len(s) /\ CharAt(s, i) = ESC /\ CharAt(s, i + 1) = "["
    THEN LET j == SkipWhile(s, i + 2, body)
         IN  IF j <= Len(s) /\ CharAt(s, j) \in final THEN j ELSE 0
    ELSE 0

RECURSIVE ReSub(_, _, _, _)
\* pattern.sub('', s) from position i on: leftmost matches, left to right
ReSub(s, i, body, final) ==
    IF i > Len(s) THEN ""
    ELSE LET e == MatchEnd(s, i, body, final)
         IN  IF e # 0 THEN ReSub(s, e + 1, body, final)
             ELSE CharAt(s, i) \o ReSub(s, i + 1, body, final)

\* cursor_codes.sub, then color_codes.sub
clean_fastfetch_output(text) ==
    LET no_cursor == ReSub(text, 1, DigitChars, {"A", "B", "C", "D", "G"})
    IN  ReSub(no_cursor, 1, DigitChars \cup {";"}, {"m"})

LoadingText == "Loading fastfetch output..."
FailedText == "Fastfetch command failed or not installed"
TimedOutText == "Fastfetch command timed out"
NotInstalledText == "Fastfetch is not installed on this system"
ErrorText == "Error running fastfetch: [Errno 13] Permission denied"

\* the message of the except clause an exception of this kind reaches
FastfetchExceptText(kind) ==
    IF kind = "timeout" THEN TimedOutText
    ELSE IF kind = "missing" THEN NotInstalledText
    ELSE ErrorText

\* a mutant: the stdout of the plain run is used as it is
run_fastfetch_output_NoClean(o1, o2) ==
    IF Raises(o1) THEN FastfetchExceptText(o1.kind)
    ELSE IF o1.kind = "ok" THEN o1.stdout
    ELSE IF Raises(o2) THEN FastfetchExceptText(o2.kind)
    ELSE IF o2.kind = "ok" THEN o2.stdout
    ELSE FailedText

\* the output run_fastfetch computes from the outcomes of its two runs
run_fastfetch_output(o1, o2) ==
    IF Raises(o1) THEN FastfetchExceptText(o1.kind)
    ELSE IF o1.kind = "ok" THEN o1.stdout
    ELSE IF Raises(o2) THEN FastfetchExceptText(o2.kind)
    ELSE IF o2.kind = "ok" THEN clean_fastfetch_output(o2.stdout)
    ELSE FailedText

\* the subprocess.run calls run_fastfetch makes for these outcomes
run_fastfetch_calls(o1, o2) ==
    IF Raises(o1) \/ o1.kind = "ok"
    THEN {"subprocess.run fastfetch --color-output never"}
    ELSE {"subprocess.run fastfetch --color-output never",
          "subprocess.run fastfetch"}

\* what `fastfetch --color-output never` may do
FastfetchPlainOutcomes ==
    {[kind |-> "ok", stdout |-> "OS: Linexin\n"], [kind |-> "fail", stdout |-> ""]}
    \cup {[kind |-> k, stdout |-> ""] : k \in ExceptionKinds}

\* what plain `fastfetch` may do: its output carries colour and cursor codes
FastfetchColourOutcomes ==
    {[kind |-> "ok", stdout |-> "^[1mOS^[0m: Linexin^[3C\n"],
     [kind |-> "fail", stdout |-> ""]}
    \cup {[kind |-> k, stdout |-> ""] : k \in ExceptionKinds}

---------------------------------------------------------------------------
(* load_info: the data gathering of load_system_info *)

\* a file as open() finds it: its lines, or missing (any error on open/read)
OsReleaseFiles ==
    {[kind |-> "missing", lines |-> <<>>],
     [kind |-> "ok", lines |-> <<"NAME=Linexin\n", "ID=linexin\n">>],
     [kind |-> "ok", lines |-> <<"NAME=Linexin\n", "VERSION_ID=\"\"\n">>],
     [kind |-> "ok", lines |-> <<"NAME=Linexin\n", "VERSION_ID=\"2024.09\"\n",
                                 "BUILD_ID=rolling\n">>]}

VersionFiles ==
    {[kind |-> "missing", content |-> ""],
     [kind |-> "ok", content |-> " \n"],
     [kind |-> "ok", content |-> "2024-09-01\n"]}

StartsWith(s, t) == Len(s) >= Len(t) /\ SubSeq(s, 1, Len(t)) = t

(* An Optional[str] is <<>> for None and <<s>> for the string s. *)
Truthy(opt) == opt # <<>> /\ opt[1] # ""

RECURSIVE VersionIdFrom(_, _)
\* the for loop of get_version_id from the i-th line on
VersionIdFrom(lines, i) ==
    IF i > Len(lines) THEN <<>>
    ELSE IF StartsWith(lines[i], "VERSION_ID=")
         THEN <<StrStripQuote(StrStrip(SplitSecond(lines[i], "=")))>>
         ELSE VersionIdFrom(lines, i + 1)

get_version_id(file) ==
    IF file.kind = "ok" THEN VersionIdFrom(file.lines, 1) ELSE <<>>

get_version_date(file) ==
    IF file.kind = "ok"
    THEN LET content == StrStrip(file.content)
         IN  IF content # "" THEN <<content>> ELSE <<>>
    ELSE <<>>

\* the host the other rows are gathered from
HostEnv == [XDG_SESSION_TYPE |-> "wayland", XDG_CURRENT_DESKTOP |-> "GNOME",
            WINDOW_MANAGER |-> "/usr/bin/mutter"]
HostMemUsed == <<0, 0, 512, 3>>
HostMemTotal == <<0, 0, 0, 16>>
HostDiskUsed == <<0, 0, 256, 120>>
HostDiskTotal == <<0, 0, 0, 512>>

FormatBytesText(n) ==
    LET r == format_bytes(n)
    IN  <<r.num.whole, r.num.tenth, r.unit>>

get_session_type(env) ==
    LET session_type == StrLower(EnvironGet(env, "XDG_SESSION_TYPE", ""))
    IN  IF session_type # "" THEN StrCapitalize(session_type) ELSE Unknown

Row(label, value) == [label |-> label, value |-> value]

\* the gathering steps of load_info in program order, by the row each adds
InfoSteps ==
    <<"Operating System", "Version ID", "Version Date", "Kernel",
      "Session Type", "Desktop Environment", "Window Manager", "Processor",
      "Graphics", "Memory", "Disk Usage", "Uptime">>

(* The steps an exception can leave: the others catch everything themselves
   (bare except) or only read os.environ. *)
RaisingSteps ==
    {"Operating System", "Window Manager", "Processor", "Graphics", "Memory",
     "Disk Usage"}

\* a mutant: the Version ID row is appended whatever get_version_id returned
VersionIdRows_Always(host) ==
    LET version_id == get_version_id(host.osrelease)
    IN  <<Row("Version ID", IF version_id = <<>> THEN "None" ELSE version_id[1])>>

\* if version_id: info_data.append(...)
VersionIdRows(host) ==
    LET version_id == get_version_id(host.osrelease)
    IN  IF Truthy(version_id) THEN <<Row("Version ID", version_id[1])>> ELSE <<>>

\* the rows step i appends when it raises nothing
StepRows(host, i) ==
    CASE InfoSteps[i] = "Operating System" -> <<Row("Operating System", "Linexin")>>
      [] InfoSteps[i] = "Version ID" -> VersionIdRows(host)
      [] InfoSteps[i] = "Version Date" ->
            LET version_date == get_version_date(host.version)
            IN  IF Truthy(version_date)
                THEN <<Row("Version Date", version_date[1])>> ELSE <<>>
      [] InfoSteps[i] = "Kernel" -> <<Row("Kernel", "6.18.44")>>
      [] InfoSteps[i] = "Session Type" ->
            <<Row("Session Type", get_session_type(HostEnv))>>
      [] InfoSteps[i] = "Desktop Environment" ->
            <<Row("Desktop Environment", get_desktop_environment(HostEnv).value)>>
      [] InfoSteps[i] = "Window Manager" ->
            <<Row("Window Manager",
                  get_window_manager(HostEnv, [kind |-> "fail", stdout |-> ""],
                                     [kind |-> "fail", stdout |-> ""],
                                     [kind |-> "fail", stdout |-> ""]).value)>>
      [] InfoSteps[i] = "Processor" -> <<Row("Processor", "CPU (8 cores)")>>
      [] InfoSteps[i] = "Graphics" -> <<Row("Graphics", "GPU")>>
      [] InfoSteps[i] = "Memory" ->
            <<Row("Memory", <<FormatBytesText(HostMemUsed),
                              FormatBytesText(HostMemTotal)>>)>>
      [] InfoSteps[i] = "Disk Usage" ->
            <<Row("Disk Usage", <<FormatBytesText(HostDiskUsed),
                                  FormatBytesText(HostDiskTotal)>>)>>
      [] InfoSteps[i] = "Uptime" -> <<Row("Uptime", "3h 12m")>>

\* the calls of step i that may block: process spawns and file reads
StepCalls(i) ==
    CASE InfoSteps[i] = "Operating System" -> {"distro: read /etc/os-release"}
      [] InfoSteps[i] = "Version ID" -> {"open /etc/os-release"}
      [] InfoSteps[i] = "Version Date" -> {"open /version"}
      [] InfoSteps[i] = "Window Manager" -> {"subprocess.run ps aux"}
      [] InfoSteps[i] = "Processor" -> {"open /proc/cpuinfo"}
      [] InfoSteps[i] = "Graphics" -> {"subprocess.run lspci"}
      [] InfoSteps[i] = "Memory" -> {"psutil: read /proc/meminfo"}
      [] InfoSteps[i] = "Disk Usage" -> {}
      [] OTHER -> {}

ErrorRow == Row("Error", "Failed to load system information")

RECURSIVE LoadInfoFrom_KeepsGoing(_, _, _, _)
\* a mutant: the failing step is caught on its own and the later steps still run
LoadInfoFrom_KeepsGoing(host, i, info_data, calls) ==
    IF i > Len(InfoSteps) THEN [info_data |-> info_data, calls |-> calls]
    ELSE IF InfoSteps[i] = host.fails
    THEN LoadInfoFrom_KeepsGoing(host, i + 1, Append(info_data, ErrorRow),
                                 calls \cup StepCalls(i))
    ELSE LoadInfoFrom_KeepsGoing(host, i + 1, info_data \o StepRows(host, i),
                                 calls \cup StepCalls(i))

RECURSIVE LoadInfoFrom(_, _, _, _)
(* The try block of load_info from step i on, with info_data and the blocking
   calls made so far; host.fails names the step that raises ("none": none). *)
LoadInfoFrom(host, i, info_data, calls) ==
    IF i > Len(InfoSteps) THEN [info_data |-> info_data, calls |-> calls]
    ELSE IF InfoSteps[i] = host.fails
    THEN [info_data |-> Append(info_data, ErrorRow),
          calls |-> calls \cup StepCalls(i)]
    ELSE LoadInfoFrom(host, i + 1, info_data \o StepRows(host, i),
                      calls \cup StepCalls(i))

load_info(host) == LoadInfoFrom(host, 1, <<>>, {})

\* what the host may look like to one run of load_info
Hosts ==
    [osrelease : OsReleaseFiles, version : VersionFiles,
     fails : {"none"} \cup RaisingSteps]

---------------------------------------------------------------------------
(* The widget: construction, the toggle button, the threads, the main loop *)

\* the most toggle clicks a run handles
MaxClicks == 3

\* a mutant: the target is called directly instead of on a new thread
StartThread_Inline(target, run) ==
    [run |-> run, target |-> target, on |-> "main", pc |-> "started"]

(* threading.Thread(target=..., daemon=True).start(): the thread exists and
   has not run yet. *)
StartThread(target, run) ==
    [run |-> run, target |-> target, on |-> "worker", pc |-> "started"]

(* setup_fastfetch_view: the terminal when VTE was imported and the terminal
   could be created, else the text fallback. *)
setup_fastfetch_view(vte, terminal_created) ==
    IF vte /\ terminal_created
    THEN [terminal_available |-> TRUE, has_buffer |-> FALSE,
          child |-> "terminal"]
    ELSE [terminal_available |-> FALSE, has_buffer |-> TRUE,
          child |-> "textview"]

\* Gtk.Stack.set_visible_child_name: no child of that name changes nothing
set_visible_child_name(children, visible, name) ==
    IF name \in DOMAIN children THEN name ELSE visible

(* The state __init__ leaves: the view is "rows", the fastfetch child is the
   terminal or the text view, the load_info thread is started, and in single
   widget mode the resize callback is pending. *)
Constructed(hosts) ==
    \E vte \in BOOLEAN, terminal_created \in BOOLEAN, single \in BOOLEAN :
       LET ff == setup_fastfetch_view(vte, terminal_created)
           children == [rows |-> "listbox", fastfetch |-> ff.child]
       IN  /\ VTE_AVAILABLE = vte
           /\ current_view = "rows"
           /\ button_label = "Fastfetch View"
           /\ stack_children = children
           /\ visible_child = set_visible_child_name(children, "rows", "rows")
           /\ terminal_available = ff.terminal_available
           /\ has_buffer = ff.has_buffer
           /\ fastfetch_buffer = [text |-> "", run |-> 0]
           /\ terminal = [shows |-> "nothing", child |-> "none"]
           /\ info_listbox = <<>>
           /\ machine \in hosts
           /\ threads = <<StartThread("load_info", 1)>>
           /\ idle = IF single
                     THEN <<[cb |-> "resize_window_deferred", arg |-> <<>>,
                             run |-> 0]>>
                     ELSE <<>>
           /\ clicks = 0
           /\ ff_loads = 0
           /\ info_loads = 1
           /\ blocking = {}
           /\ ui_writes = {}
           /\ scheduled = <<0>>
           /\ executed = <<0>>
           /\ callback_by = {}
           /\ fn_pc = "idle" /\ fn_in = <<>> /\ fn_out = <<>>

\* the machines of the runs that follow the toggle button
ClickHosts ==
    {h \in Hosts :
        \/ /\ h.fails \in {"none", "Graphics"}
           /\ h.osrelease.kind = "ok" /\ Len(h.osrelease.lines) = 3
           /\ h.version.kind = "ok" /\ h.version.content = "2024-09-01\n"
        \/ /\ h.fails \in {"none", "Operating System"}
           /\ h.osrelease.kind = "missing"
           /\ h.version.kind = "missing"}

Init == Constructed(ClickHosts)

Write(widget) == [by |-> "main", widget |-> widget]

(* load_fastfetch_text: show the loading text if there is a text buffer, and
   start a run_fastfetch thread. *)
load_fastfetch_text ==
    /\ fastfetch_buffer' =
          IF has_buffer THEN [text |-> LoadingText, run |-> 0]
          ELSE fastfetch_buffer
    /\ threads' = Append(threads, StartThread("run_fastfetch", Len(threads) + 1))
    /\ scheduled' = Append(scheduled, 0)
    /\ executed' = Append(executed, 0)

\* the first branch of on_view_toggle_clicked, up to load_fastfetch_info()
SwitchToFastfetch ==
    /\ current_view' = "fastfetch"
    /\ button_label' = "Row View"
    /\ visible_child' =
          set_visible_child_name(stack_children, visible_child, "fastfetch")
    /\ clicks' = clicks + 1
    /\ ff_loads' = ff_loads + 1

(* A click in the row view with the terminal available, and the spawn
   succeeds: the terminal is reset and fastfetch runs in it. *)
ClickToFastfetchTerminal ==
    /\ clicks < MaxClicks
    /\ current_view = "rows"
    /\ terminal_available
    /\ SwitchToFastfetch
    /\ terminal' = [shows |-> "cleared", child |-> "running"]
    /\ blocking' = blocking \cup {[by |-> "main", call |-> "Vte.Terminal spawn fastfetch"]}
    /\ ui_writes' = ui_writes \cup {Write("view_toggle_button"),
                                    Write("content_stack"), Write("terminal")}
    /\ UNCHANGED <<VTE_AVAILABLE, stack_children, terminal_available,
                   has_buffer, fastfetch_buffer, info_listbox, machine, threads,
                   idle, info_loads, scheduled, executed, callback_by, fn_vars>>

(* A click in the row view with the terminal available, and reset or the spawn
   raises: terminal_available becomes False and load_fastfetch_text runs. *)
ClickToFastfetchSpawnFails ==
    /\ clicks < MaxClicks
    /\ current_view = "rows"
    /\ terminal_available
    /\ SwitchToFastfetch
    /\ \E reset_done \in BOOLEAN :
          /\ terminal' = IF reset_done
                         THEN [shows |-> "cleared", child |-> "none"]
                         ELSE terminal
          /\ blocking' = IF reset_done
                         THEN blocking \cup
                                 {[by |-> "main",
                                   call |-> "Vte.Terminal spawn fastfetch"]}
                         ELSE blocking
          /\ ui_writes' = ui_writes \cup
                             {Write("view_toggle_button"), Write("content_stack"),
                              Write("terminal_available")}
                             \cup (IF reset_done THEN {Write("terminal")} ELSE {})
                             \cup (IF has_buffer THEN {Write("fastfetch_buffer")}
                                   ELSE {})
    /\ terminal_available' = FALSE
    /\ load_fastfetch_text
    /\ UNCHANGED <<VTE_AVAILABLE, stack_children, has_buffer, info_listbox,
                   machine, idle, info_loads, callback_by, fn_vars>>

\* a click in the row view without the terminal: load_fastfetch_text
ClickToFastfetchText ==
    /\ clicks < MaxClicks
    /\ current_view = "rows"
    /\ ~terminal_available
    /\ SwitchToFastfetch
    /\ load_fastfetch_text
    /\ ui_writes' = ui_writes \cup
                       {Write("view_toggle_button"), Write("content_stack")}
                       \cup (IF has_buffer THEN {Write("fastfetch_buffer")}
                             ELSE {})
    /\ UNCHANGED <<VTE_AVAILABLE, stack_children, terminal_available,
                   has_buffer, terminal, info_listbox, machine, idle, info_loads,
                   blocking, callback_by, fn_vars>>

\* a mutant: the branch forgets to set the button label
ClickToRows_KeepsLabel ==
    /\ clicks < MaxClicks
    /\ current_view # "rows"
    /\ current_view' = "rows"
    /\ visible_child' =
          set_visible_child_name(stack_children, visible_child, "rows")
    /\ clicks' = clicks + 1
    /\ ui_writes' = ui_writes \cup {Write("content_stack")}
    /\ UNCHANGED <<VTE_AVAILABLE, button_label, stack_children,
                   terminal_available, has_buffer, fastfetch_buffer, terminal,
                   info_listbox, machine, threads, idle, ff_loads, info_loads,
                   blocking, scheduled, executed, callback_by, fn_vars>>

\* a mutant: the branch also calls load_system_info()
ClickToRows_Reloads ==
    /\ clicks < MaxClicks
    /\ current_view # "rows"
    /\ current_view' = "rows"
    /\ button_label' = "Fastfetch View"
    /\ visible_child' =
          set_visible_child_name(stack_children, visible_child, "rows")
    /\ clicks' = clicks + 1
    /\ ui_writes' = ui_writes \cup
                       {Write("view_toggle_button"), Write("content_stack")}
    /\ threads' = Append(threads, StartThread("load_info", Len(threads) + 1))
    /\ scheduled' = Append(scheduled, 0)
    /\ executed' = Append(executed, 0)
    /\ info_loads' = info_loads + 1
    /\ UNCHANGED <<VTE_AVAILABLE, stack_children, terminal_available,
                   has_buffer, fastfetch_buffer, terminal, info_listbox,
                   machine, idle, ff_loads, blocking, callback_by, fn_vars>>

\* a click in the fastfetch view: back to the rows
ClickToRows ==
    /\ clicks < MaxClicks
    /\ current_view # "rows"
    /\ current_view' = "rows"
    /\ button_label' = "Fastfetch View"
    /\ visible_child' =
          set_visible_child_name(stack_children, visible_child, "rows")
    /\ clicks' = clicks + 1
    /\ ui_writes' = ui_writes \cup
                       {Write("view_toggle_button"), Write("content_stack")}
    /\ UNCHANGED <<VTE_AVAILABLE, stack_children, terminal_available,
                   has_buffer, fastfetch_buffer, terminal, info_listbox, machine,
                   threads, idle, ff_loads, info_loads, blocking, scheduled,
                   executed, callback_by, fn_vars>>

on_view_toggle_clicked ==
    \/ ClickToFastfetchTerminal
    \/ ClickToFastfetchSpawnFails
    \/ ClickToFastfetchText
    \/ ClickToRows

\* GLib.idle_add(callback, arg) by run
idle_add(queue, cb, arg, run) ==
    Append(queue, [cb |-> cb, arg |-> arg, run |-> run])

Calls(by, calls) == {[by |-> by, call |-> c] : c \in calls}

(* The load_info thread runs: it gathers info_data from the machine and
   schedules update_ui.  It touches nothing of the widget, so its steps are
   taken as one. *)
RunLoadInfo(i) ==
    /\ threads[i].target = "load_info"
    /\ threads[i].pc = "started"
    /\ LET r == load_info(machine)
       IN  /\ idle' = idle_add(idle, "update_ui", r.info_data, i)
           /\ blocking' = blocking \cup Calls(threads[i].on, r.calls)
    /\ threads' = [threads EXCEPT ![i].pc = "done"]
    /\ scheduled' = [scheduled EXCEPT ![i] = @ + 1]
    /\ UNCHANGED <<widget_vars, machine, clicks, ff_loads, info_loads, ui_writes,
                   executed, callback_by, fn_vars>>

(* A run_fastfetch thread runs: up to two fastfetch runs decide its output,
   and it schedules update_fastfetch_text. *)
RunFastfetch(i) ==
    /\ threads[i].target = "run_fastfetch"
    /\ threads[i].pc = "started"
    /\ \E o1 \in FastfetchPlainOutcomes, o2 \in FastfetchColourOutcomes :
          /\ idle' = idle_add(idle, "update_fastfetch_text",
                              run_fastfetch_output(o1, o2), i)
          /\ blocking' = blocking \cup
                            Calls(threads[i].on, run_fastfetch_calls(o1, o2))
    /\ threads' = [threads EXCEPT ![i].pc = "done"]
    /\ scheduled' = [scheduled EXCEPT ![i] = @ + 1]
    /\ UNCHANGED <<widget_vars, machine, clicks, ff_loads, info_loads, ui_writes,
                   executed, callback_by, fn_vars>>

\* a mutant: update_ui returns True and stays installed
update_ui_returns_True == TRUE

\* the value update_ui returns to the main loop
update_ui_returns == FALSE

\* the value update_fastfetch_text returns to the main loop
update_fastfetch_text_returns == FALSE

\* the idle queue once its first source ran and returned keep
AfterDispatch(keep) ==
    IF keep THEN Append(Tail(idle), Head(idle)) ELSE Tail(idle)

\* the main loop runs update_ui(info_data): one appended row per entry
DispatchUpdateUi ==
    /\ idle # <<>>
    /\ Head(idle).cb = "update_ui"
    /\ info_listbox' = info_listbox \o Head(idle).arg
    /\ ui_writes' = ui_writes \cup {Write("info_listbox")}
    /\ executed' = [executed EXCEPT ![Head(idle).run] = @ + 1]
    /\ callback_by' = callback_by \cup {"main"}
    /\ idle' = AfterDispatch(update_ui_returns)
    /\ UNCHANGED <<VTE_AVAILABLE, current_view, button_label, visible_child,
                   stack_children, terminal_available, has_buffer,
                   fastfetch_buffer, terminal, machine, threads, clicks, ff_loads,
                   info_loads, blocking, scheduled, fn_vars>>

\* the main loop runs update_fastfetch_text(output)
DispatchUpdateFastfetchText ==
    /\ idle # <<>>
    /\ Head(idle).cb = "update_fastfetch_text"
    /\ fastfetch_buffer' =
          IF has_buffer THEN [text |-> Head(idle).arg, run |-> Head(idle).run]
          ELSE fastfetch_buffer
    /\ ui_writes' = ui_writes \cup
                       (IF has_buffer THEN {Write("fastfetch_buffer")} ELSE {})
    /\ executed' = [executed EXCEPT ![Head(idle).run] = @ + 1]
    /\ callback_by' = callback_by \cup {"main"}
    /\ idle' = AfterDispatch(update_fastfetch_text_returns)
    /\ UNCHANGED <<VTE_AVAILABLE, current_view, button_label, visible_child,
                   stack_children, terminal_available, has_buffer, terminal,
                   info_listbox, machine, threads, clicks, ff_loads, info_loads,
                   blocking, scheduled, fn_vars>>

\* the main loop runs resize_window_deferred, which returns False
DispatchResize ==
    /\ idle # <<>>
    /\ Head(idle).cb = "resize_window_deferred"
    /\ idle' = Tail(idle)
    /\ callback_by' = callback_by \cup {"main"}
    /\ UNCHANGED <<widget_vars, machine, threads, clicks, ff_loads, info_loads,
                   blocking, ui_writes, scheduled, executed, fn_vars>>

\* fastfetch, running in the terminal, prints its output and exits
TerminalChildOutput ==
    /\ terminal.child = "running"
    /\ terminal' = [shows |-> "fastfetch", child |-> "exited"]
    /\ UNCHANGED <<VTE_AVAILABLE, current_view, button_label, visible_child,
                   stack_children, terminal_available, has_buffer,
                   fastfetch_buffer, info_listbox, loop_vars, hist_vars,
                   fn_vars>>

Next ==
    \/ on_view_toggle_clicked
    \/ \E i \in 1..Len(threads) : RunLoadInfo(i)
    \/ \E i \in 1..Len(threads) : RunFastfetch(i)
    \/ DispatchUpdateUi
    \/ DispatchUpdateFastfetchText
    \/ DispatchResize
    \/ TerminalChildOutput

Spec == Init /\ [][Next]_vars

(* The information load on its own, on every machine: the thread, and the main
   loop running what it scheduled; nobody clicks. *)
InitInfo == Constructed(Hosts)

NextInfo ==
    \/ \E i \in 1..Len(threads) : RunLoadInfo(i)
    \/ DispatchUpdateUi
    \/ DispatchResize

SpecInfo == InitInfo /\ [][NextInfo]_vars

---------------------------------------------------------------------------
(* the harness that applies a pure function to every input of a bounded set *)

\* the widget is not part of a run that only applies a pure function
NoWidget ==
    /\ VTE_AVAILABLE = FALSE
    /\ current_view = "rows"
    /\ button_label = "Fastfetch View"
    /\ visible_child = "rows"
    /\ stack_children = <<>>
    /\ terminal_available = FALSE
    /\ has_buffer = FALSE
    /\ fastfetch_buffer = [text |-> "", run |-> 0]
    /\ terminal = [shows |-> "nothing", child |-> "none"]
    /\ info_listbox = <<>>
    /\ machine = <<>>
    /\ threads = <<>>
    /\ idle = <<>>
    /\ clicks = 0
    /\ ff_loads = 0
    /\ info_loads = 0
    /\ blocking = {}
    /\ ui_writes = {}
    /\ scheduled = <<>>
    /\ executed = <<>>
    /\ callback_by = {}

InitDE ==
    /\ NoWidget
    /\ fn_pc = "ready"
    /\ fn_in \in Environments({DE_ENV_VARS[i] : i \in 1..Len(DE_ENV_VARS)}, DEValues)
    /\ fn_out = [value |-> "", reads |-> <<>>]

CallDE ==
    /\ fn_pc = "ready"
    /\ fn_out' = get_desktop_environment(fn_in)
    /\ fn_pc' = "returned"
    /\ UNCHANGED <<fn_in, widget_vars, loop_vars, hist_vars>>

NextDE == CallDE

SpecDE == InitDE /\ [][NextDE]_vars

InitWM ==
    /\ NoWidget
    /\ fn_pc = "ready"
    /\ fn_in \in [env : WMEnvironments, ps : PsOutcomes,
                  xroot : XRootOutcomes, xid : XIdOutcomes]
    /\ fn_out = [value |-> "", stage |-> 0, cmds |-> <<>>, raised |-> FALSE]

CallWM ==
    /\ fn_pc = "ready"
    /\ fn_out' = get_window_manager(fn_in.env, fn_in.ps, fn_in.xroot, fn_in.xid)
    /\ fn_pc' = "returned"
    /\ UNCHANGED <<fn_in, widget_vars, loop_vars, hist_vars>>

NextWM == CallWM

SpecWM == InitWM /\ [][NextWM]_vars

---------------------------------------------------------------------------
(* C4: get_desktop_environment *)

DENames == {DE_ENV_VARS[i] : i \in 1..Len(DE_ENV_VARS)}

\* the positions of the variables that are set to a non-empty value
DENonEmpty == {i \in 1..Len(DE_ENV_VARS) : EnvironGet(fn_in, DE_ENV_VARS[i], "") # ""}

DEDeciding == CHOOSE i \in DENonEmpty : \A j \in DENonEmpty : i <= j

\* the lower-cased value of the deciding variable
DEDecidingValue == StrLower(fn_in[DE_ENV_VARS[DEDeciding]])

(* The priority rule: the first non-empty variable decides, through the table
   or by capitalising the lower-cased value, and no variable after it is read. *)
C4_FirstNonEmptyDecides ==
    IF DENonEmpty = {}
    THEN /\ fn_out.value = "Unknown"
         /\ fn_out.reads = DE_ENV_VARS
    ELSE /\ fn_out.reads = SubSeq(DE_ENV_VARS, 1, DEDeciding)
         /\ IF \E i \in 1..Len(de_mapping) : de_mapping[i][1] = DEDecidingValue
            THEN \E i \in 1..Len(de_mapping) :
                    /\ de_mapping[i][1] = DEDecidingValue
                    /\ fn_out.value = de_mapping[i][2]
            ELSE fn_out.value =
                    UpperChar(CharAt(DEDecidingValue, 1))
                       \o SubSeq(DEDecidingValue, 2, Len(DEDecidingValue))

(* C4 as stated: get_desktop_environment decides on the first non-empty of
   XDG_CURRENT_DESKTOP, DESKTOP_SESSION, XDG_SESSION_DESKTOP (mapped name, or
   the lower-cased value capitalised), reads no later variable, and returns
   'Unknown' exactly when all three are unset or empty. *)
C4_AsStated ==
    fn_pc = "returned" =>
        /\ C4_FirstNonEmptyDecides
        /\ (fn_out.value = "Unknown" <=> DENonEmpty = {})

(* C4 amended: as above, but 'Unknown' is returned when all three are unset or
   empty and otherwise only when the deciding value lower-cases to "unknown"
   (which capitalises to the same text). *)
C4_DesktopEnvironment ==
    fn_pc = "returned" =>
        /\ C4_FirstNonEmptyDecides
        /\ (DENonEmpty = {} => fn_out.value = "Unknown")
        /\ (fn_out.value = "Unknown" =>
               DENonEmpty = {} \/ DEDecidingValue = "unknown")

\* a lower-priority variable decides through the table while a later one is set
C4_Witness ==
    /\ fn_pc = "returned"
    /\ EnvironGet(fn_in, "XDG_CURRENT_DESKTOP", "") = ""
    /\ EnvironGet(fn_in, "DESKTOP_SESSION", "") = "GNOME"
    /\ EnvironGet(fn_in, "XDG_SESSION_DESKTOP", "") = "niri"
    /\ fn_out.value = "GNOME"
    /\ fn_out.reads = <<"XDG_CURRENT_DESKTOP", "DESKTOP_SESSION">>

---------------------------------------------------------------------------
(* C5, C6: get_window_manager *)

WMHandled == {"ok", "fail", "missing", "timeout"}

\* every command outcome is one the claim covers (exit code, missing, timeout)
WMInputsHandled ==
    /\ fn_in.ps.kind \in WMHandled
    /\ fn_in.xroot.kind \in WMHandled
    /\ fn_in.xid.kind \in WMHandled

WMEnvSet == EnvironGet(fn_in.env, "WINDOW_MANAGER", "") # ""

\* the process listing ran to exit code 0 and holds some table key
WMProcessYields ==
    /\ fn_in.ps.kind = "ok"
    /\ \E i \in 1..Len(wm_mapping) : StrContains(fn_in.ps.stdout, wm_mapping[i][1])

\* the name the second xprop query reports
WMXpropName ==
    StrStripQuote(StrStrip(SplitSecond(fn_in.xid.stdout, "=")))

WMX11Yields ==
    /\ EnvironGet(fn_in.env, "DISPLAY", "") # ""
    /\ fn_in.xroot.kind = "ok" /\ StrContains(fn_in.xroot.stdout, "window id")
    /\ fn_in.xid.kind = "ok" /\ StrContains(fn_in.xid.stdout, "=")
    /\ StrLower(WMXpropName) # "gnome shell"

IsXprop(c) == SubSeq(c, 1, 5) = "xprop"

(* C5: get_window_manager returns at the first stage that yields a value, in
   the order WINDOW_MANAGER (its basename), process listing, xprop (only with
   DISPLAY set, and never the name 'gnome shell'), 'Unknown'; a command that
   exits non-zero, is missing or times out never raises out of the function
   and only makes detection go on to the next stage. *)
C5_WindowManagerStages ==
    (fn_pc = "returned" /\ WMInputsHandled) =>
        /\ ~fn_out.raised
        /\ IF WMEnvSet
           THEN /\ fn_out.stage = 1
                /\ fn_out.value = Basename(fn_in.env["WINDOW_MANAGER"])
                /\ fn_out.cmds = <<>>
           ELSE IF WMProcessYields
           THEN /\ fn_out.stage = 2
                /\ \E i \in 1..Len(wm_mapping) : fn_out.value = wm_mapping[i][2]
                /\ fn_out.cmds = <<"ps aux">>
           ELSE IF WMX11Yields
           THEN /\ fn_out.stage = 3
                /\ fn_out.value = WMXpropName
                /\ Len(fn_out.cmds) = 3 /\ fn_out.cmds[1] = "ps aux"
           ELSE /\ fn_out.stage = 4
                /\ fn_out.value = "Unknown"
                /\ fn_out.cmds[1] = "ps aux"
        /\ (EnvironGet(fn_in.env, "DISPLAY", "") = "" =>
               \A i \in 1..Len(fn_out.cmds) : ~IsXprop(fn_out.cmds[i]))

\* the listing times out, DISPLAY is set and xprop names the window manager
C5_Witness ==
    /\ fn_pc = "returned"
    /\ ~WMEnvSet
    /\ fn_in.ps.kind = "timeout"
    /\ fn_in.xroot.kind = "ok" /\ fn_in.xid.kind = "ok"
    /\ fn_out.stage = 3
    /\ fn_out.value = "IceWM 3.4"
    /\ fn_out.cmds = <<"ps aux", "xprop -root", "xprop -id 0x600001">>

\* the names of the running processes
WMRunning == {fn_in.ps.procs[i] : i \in 1..Len(fn_in.ps.procs)}

(* C6: in the process-matching stage a table entry's display name is returned
   only if some running process has the entry's key as its process name, and
   of several matching entries the first in table order is returned. *)
C6_ProcessNameMatch ==
    (fn_pc = "returned" /\ fn_out.stage = 2 /\ ~fn_out.raised) =>
        \E i \in 1..Len(wm_mapping) :
            /\ wm_mapping[i][1] \in WMRunning
            /\ fn_out.value = wm_mapping[i][2]
            /\ \A j \in 1..(i - 1) : wm_mapping[j][1] \notin WMRunning

---------------------------------------------------------------------------
(* C8: format_bytes *)

InitFB ==
    /\ NoWidget
    /\ fn_pc = "ready"
    /\ fn_in \in [1..MaxDigits -> ByteDigits]
    /\ fn_out = [num |-> [whole |-> <<0>>, tenth |-> 0], unit |-> ""]

CallFB ==
    /\ fn_pc = "ready"
    /\ fn_out' = format_bytes(fn_in)
    /\ fn_pc' = "returned"
    /\ UNCHANGED <<fn_in, widget_vars, loop_vars, hist_vars>>

NextFB == CallFB

SpecFB == InitFB /\ [][NextFB]_vars

\* n < 1024^k: no digit from position k+1 on
FBBelowPower(k) == \A i \in (k + 1)..Len(fn_in) : fn_in[i] = 0

\* the unit the claim names: the first k in 0..4 with n / 1024^k < 1024, else PB
FBClaimedUnit ==
    IF \E k \in 0..4 : FBBelowPower(k + 1)
    THEN UNITS[1 + CHOOSE k \in 0..4 :
                      /\ FBBelowPower(k + 1)
                      /\ \A j \in 0..(k - 1) : ~FBBelowPower(j + 1)]
    ELSE "PB"

\* the number shown, as long as it is below 1024^2
FBShownWhole ==
    fn_out.num.whole[1]
       + (IF Len(fn_out.num.whole) > 1 THEN Kilo * fn_out.num.whole[2] ELSE 0)

FBShownBelowKilo == AllZero(Tail(fn_out.num.whole))
FBShownIsKilo ==
    /\ Len(fn_out.num.whole) > 1
    /\ AllZero(Tail(Tail(fn_out.num.whole)))
    /\ FBShownWhole = Kilo
    /\ fn_out.num.tenth = 0
FBShownAtLeastOne == ~AllZero(fn_out.num.whole)

(* C8 as stated: the unit is the first of B, KB, MB, GB, TB for which
   n / 1024^k < 1024, PB from 1024^5 on, and the number shown with a unit
   below PB is less than 1024 and, above B, at least 1. *)
C8_AsStated ==
    fn_pc = "returned" =>
        /\ fn_out.unit = FBClaimedUnit
        /\ (fn_out.unit # "PB" => FBShownBelowKilo)
        /\ (fn_out.unit \notin {"B", "PB"} => FBShownAtLeastOne)

(* C8 amended: the unit is chosen as stated, so the quotient n / 1024^k is
   below 1024 (and at least 1 above B); the number shown is that quotient
   rounded to one decimal, hence at least 1.0 above B and at most 1024.0,
   which it reaches when the quotient is 1023.95 or more. *)
C8_FormatBytes ==
    fn_pc = "returned" =>
        /\ fn_out.unit = FBClaimedUnit
        /\ (fn_out.unit # "PB" => FBShownBelowKilo \/ FBShownIsKilo)
        /\ (fn_out.unit \notin {"B", "PB"} => FBShownAtLeastOne)
        /\ \A k \in 1..Len(UNITS) :
              fn_out.unit = UNITS[k] =>
                 /\ AllZero(Tail(Tail(fn_out.num.whole)))
                 /\ \/ FBShownWhole = fn_in[k]
                    \/ /\ FBShownWhole = fn_in[k] + 1
                       /\ fn_out.num.tenth = 0
                       /\ k > 1 /\ fn_in[k - 1] >= 972
                 /\ (FBShownIsKilo => fn_in[k] = Kilo - 1)

\* 1048575 bytes: 1023.999 KB, shown as 1024.0 KB
C8_Witness ==
    /\ fn_pc = "returned"
    /\ fn_in[1] = 1023 /\ fn_in[2] = 1023 /\ AllZero(SubSeq(fn_in, 3, Len(fn_in)))
    /\ fn_out.unit = "KB"
    /\ FBShownIsKilo

---------------------------------------------------------------------------
(* C1: the fastfetch result reaches the "fastfetch" child of the stack *)

\* everything a load started has finished
Quiescent ==
    /\ \A i \in 1..Len(threads) : threads[i].pc = "done"
    /\ idle = <<>>
    /\ terminal.child # "running"

\* the widget added to the stack under "fastfetch" shows a fastfetch result
FastfetchChildShowsResult ==
    IF stack_children.fastfetch = "terminal"
    THEN terminal.shows = "fastfetch"
    ELSE has_buffer /\ fastfetch_buffer.text \notin {"", LoadingText}

(* C1: once the user has switched to the fastfetch view, the fastfetch result
   (output or error message) is eventually rendered in the "fastfetch" child of
   the stack, in every configuration; stated on the final result: when all the
   work the switch started is done, that child shows a result. *)
C1_ResultRendered ==
    (ff_loads > 0 /\ Quiescent) => FastfetchChildShowsResult

---------------------------------------------------------------------------
(* C2: blocking calls and the threads that make them *)

VteSpawn == "Vte.Terminal spawn fastfetch"

(* C2 as stated: no process spawn or file read is ever made by the main
   thread, the VTE spawn path included. *)
C2_AsStated == \A b \in blocking : b.by # "main"

(* C2 amended: every subprocess.run and every file read (of load_info and of
   run_fastfetch) is made by a background thread; the one process spawn the
   main thread makes is the terminal's own spawn of fastfetch in
   spawn_fastfetch_in_terminal. *)
C2_BlockingOffMainThread ==
    /\ \A b \in blocking : b.by = "main" => b.call = VteSpawn
    /\ \A b \in blocking : b.call # VteSpawn => b.by = "worker"
    /\ \A i \in 1..Len(threads) :
          threads[i].pc = "done" =>
             [by |-> "worker",
              call |-> IF threads[i].target = "load_info"
                       THEN "distro: read /etc/os-release"
                       ELSE "subprocess.run fastfetch --color-output never"]
                \in blocking

\* the main thread spawned in the terminal; both kinds of thread have run
C2_Witness ==
    /\ [by |-> "main", call |-> VteSpawn] \in blocking
    /\ [by |-> "worker", call |-> "subprocess.run ps aux"] \in blocking
    /\ [by |-> "worker", call |-> "subprocess.run fastfetch"] \in blocking

---------------------------------------------------------------------------
(* C3: results are marshalled back to the main thread *)

\* the number of pending idle sources of run i
Pending(i) == Cardinality({k \in 1..Len(idle) : idle[k].run = i})

CallbackOf(target) ==
    IF target = "load_info" THEN "update_ui" ELSE "update_fastfetch_text"

(* C3: no background thread mutates a widget or a widget attribute; each
   background run schedules exactly one idle callback (update_ui or
   update_fastfetch_text), once it is done; the callback runs on the main
   thread and exactly once per scheduling. *)
C3_Marshalled ==
    /\ \A w \in ui_writes : w.by = "main"
    /\ callback_by \subseteq {"main"}
    /\ \A i \in 1..Len(threads) :
          /\ threads[i].on = "worker"
          /\ scheduled[i] = (IF threads[i].pc = "done" THEN 1 ELSE 0)
          /\ executed[i] + Pending(i) = scheduled[i]
    /\ \A k \in 1..Len(idle) :
          idle[k].run # 0 => idle[k].cb = CallbackOf(threads[idle[k].run].target)

\* two background runs have finished and both callbacks have run
C3_Witness ==
    /\ Len(threads) >= 2
    /\ \A i \in 1..Len(threads) : threads[i].pc = "done" /\ executed[i] = 1
    /\ idle = <<>>
    /\ info_listbox # <<>>
    /\ fastfetch_buffer.run = 2

---------------------------------------------------------------------------
(* C7: the rows and their order *)

Labels(rows) == [k \in 1..Len(rows) |-> rows[k].label]

\* /etc/os-release has a VERSION_ID line and the first one has a value
VersionIdYields ==
    /\ machine.osrelease.kind = "ok"
    /\ \E k \in 1..Len(machine.osrelease.lines) :
          /\ StartsWith(machine.osrelease.lines[k], "VERSION_ID=")
          /\ \A j \in 1..(k - 1) :
                ~StartsWith(machine.osrelease.lines[j], "VERSION_ID=")
          /\ \E c \in 12..Len(machine.osrelease.lines[k]) :
                CharAt(machine.osrelease.lines[k], c) \notin {" ", "\n", "\t", "\""}

\* /version can be read and holds more than white space
VersionDateYields ==
    /\ machine.version.kind = "ok"
    /\ \E c \in 1..Len(machine.version.content) :
          ~IsSpace(CharAt(machine.version.content, c))

ExpectedLabels ==
    LET Shown(label) ==
            /\ label = "Version ID" => VersionIdYields
            /\ label = "Version Date" => VersionDateYields
    IN  SelectSeq(<<"Operating System", "Version ID", "Version Date", "Kernel",
                    "Session Type", "Desktop Environment", "Window Manager",
                    "Processor", "Graphics", "Memory", "Disk Usage", "Uptime">>,
                  Shown)

(* C7: when gathering raises nothing, the row list shows Operating System,
   Version ID, Version Date, Kernel, Session Type, Desktop Environment, Window
   Manager, Processor, Graphics, Memory, Disk Usage, Uptime in this order,
   each once, Version ID and Version Date being there exactly when their
   source yielded a non-empty value. *)
C7_RowOrder ==
    /\ executed[1] = 0 => info_listbox = <<>>
    /\ (machine.fails = "none" /\ executed[1] = 1) =>
          Labels(info_listbox) = ExpectedLabels

\* the rows are shown, with a Version ID and (white space only) no Version Date
C7_Witness ==
    /\ machine.fails = "none"
    /\ executed[1] = 1
    /\ machine.version.kind = "ok"
    /\ Len(info_listbox) = 11
    /\ info_listbox[2] = Row("Version ID", "2024.09")
    /\ info_listbox[3].label = "Kernel"

---------------------------------------------------------------------------
(* C9, C10: the toggle button *)

(* C9: current_view is "rows" or "fastfetch", the visible child of the stack
   has that name, the button reads "Row View" exactly in the fastfetch view and
   "Fastfetch View" exactly in the row view; the view is "rows" at first and
   every click switches it, so an even number of clicks shows the rows. *)
C9_ViewCoherent ==
    /\ current_view \in {"rows", "fastfetch"}
    /\ visible_child = current_view
    /\ stack_children[visible_child] =
          (IF current_view = "rows" THEN "listbox" ELSE stack_children.fastfetch)
    /\ button_label = "Row View" <=> current_view = "fastfetch"
    /\ button_label = "Fastfetch View" <=> current_view = "rows"
    /\ current_view = "rows" <=> clicks % 2 = 0

\* two clicks later the rows are shown again
C9_Witness ==
    /\ clicks = 2
    /\ current_view = "rows"
    /\ visible_child = "rows"
    /\ button_label = "Fastfetch View"

NoDuplicates(seq) ==
    \A a, b \in 1..Len(seq) : seq[a] = seq[b] => a = b

LoadInfoThreads == {i \in 1..Len(threads) : threads[i].target = "load_info"}

C10_FilledOnce ==
    /\ ff_loads = (clicks + 1) \div 2
    /\ info_loads = 1
    /\ LoadInfoThreads = {1}
    /\ executed[1] <= 1
    /\ executed[1] = 0 => info_listbox = <<>>
    /\ NoDuplicates(Labels(info_listbox))

C10_ClickFrame ==
    clicks' # clicks =>
       /\ ff_loads' = ff_loads + (IF current_view = "rows" THEN 1 ELSE 0)
       /\ info_loads' = info_loads
       /\ info_listbox' = info_listbox
       /\ \A i \in 1..Len(threads') :
             i > Len(threads) => threads'[i].target = "run_fastfetch"

(* C10: a click starts one fastfetch load when it leaves the row view and none
   when it returns to it; no click reloads the system information or changes
   the row list, which the constructor's single load fills once, so that no
   row is ever there twice. *)
C10_ToggleFrame == []C10_FilledOnce /\ [][C10_ClickFrame]_vars

\* three clicks, two fastfetch loads, the rows filled and untouched
C10_Witness ==
    /\ clicks = 3
    /\ ff_loads = 2
    /\ executed[1] = 1
    /\ Len(info_listbox) >= 9
    /\ NoDuplicates(Labels(info_listbox))

---------------------------------------------------------------------------
(* C11: one text-mode fastfetch load

   The widget is in text mode with one run_fastfetch thread started; the
   outcomes of the two fastfetch runs are the input, the thread runs and the
   main loop then runs the callback it scheduled. *)

\* `fastfetch --color-output never`, with more of what it may print
FFPlainRuns ==
    FastfetchPlainOutcomes
    \cup {[kind |-> "ok", stdout |-> ""],
          [kind |-> "ok", stdout |-> "^[1mOS^[0m: Linexin\n"],
          [kind |-> "fail", stdout |-> "Error: unknown option\n"]}

\* plain `fastfetch`, with more of what it may print
FFColourRuns ==
    FastfetchColourOutcomes
    \cup {[kind |-> "ok", stdout |-> "OS: Linexin\n"],
          [kind |-> "ok", stdout |-> "^[2A^[9D^[1;32mHost^[m: pc\n"],
          [kind |-> "fail", stdout |-> "^[31mError^[0m\n"]}

InitFF ==
    /\ VTE_AVAILABLE = FALSE
    /\ current_view = "fastfetch"
    /\ button_label = "Row View"
    /\ visible_child = "fastfetch"
    /\ stack_children = [rows |-> "listbox", fastfetch |-> "textview"]
    /\ terminal_available = FALSE
    /\ has_buffer = TRUE
    /\ fastfetch_buffer = [text |-> LoadingText, run |-> 0]
    /\ terminal = [shows |-> "nothing", child |-> "none"]
    /\ info_listbox = <<>>
    /\ machine = <<>>
    /\ threads = <<StartThread("run_fastfetch", 1)>>
    /\ idle = <<>>
    /\ clicks = 1
    /\ ff_loads = 1
    /\ info_loads = 0
    /\ blocking = {}
    /\ ui_writes = {}
    /\ scheduled = <<0>>
    /\ executed = <<0>>
    /\ callback_by = {}
    /\ fn_pc = "ready"
    /\ fn_in \in [o1 : FFPlainRuns, o2 : FFColourRuns]
    /\ fn_out = [output |-> "", calls |-> {}]

\* the thread runs run_fastfetch with the outcomes fn_in
CallFF ==
    /\ fn_pc = "ready"
    /\ threads[1].pc = "started"
    /\ LET output == run_fastfetch_output(fn_in.o1, fn_in.o2)
           calls == run_fastfetch_calls(fn_in.o1, fn_in.o2)
       IN  /\ idle' = idle_add(idle, "update_fastfetch_text", output, 1)
           /\ blocking' = blocking \cup Calls(threads[1].on, calls)
           /\ fn_out' = [output |-> output, calls |-> calls]
    /\ threads' = [threads EXCEPT ![1].pc = "done"]
    /\ scheduled' = [scheduled EXCEPT ![1] = @ + 1]
    /\ fn_pc' = "returned"
    /\ UNCHANGED <<widget_vars, machine, clicks, ff_loads, info_loads, ui_writes,
                   executed, callback_by, fn_in>>

NextFF ==
    \/ CallFF
    \/ DispatchUpdateFastfetchText

SpecFF == InitFF /\ [][NextFF]_vars

\* the second run happens exactly when the first returned a non-zero exit code
FFSecondRun == fn_in.o1.kind = "fail"

\* the exception that ends the try block, "" when none is raised
FFRaised ==
    IF Raises(fn_in.o1) THEN fn_in.o1.kind
    ELSE IF FFSecondRun /\ Raises(fn_in.o2) THEN fn_in.o2.kind
    ELSE ""

FFDecision ==
    /\ fn_in.o1.kind = "ok" => fn_out.output = fn_in.o1.stdout
    /\ (FFSecondRun /\ fn_in.o2.kind = "ok") =>
          fn_out.output = clean_fastfetch_output(fn_in.o2.stdout)
    /\ (FFSecondRun /\ fn_in.o2.kind = "fail") =>
          fn_out.output = "Fastfetch command failed or not installed"
    /\ FFRaised = "timeout" => fn_out.output = "Fastfetch command timed out"
    /\ FFRaised = "missing" =>
          fn_out.output = "Fastfetch is not installed on this system"
    /\ FFRaised = "denied" =>
          /\ Len(fn_out.output) > 24
          /\ SubSeq(fn_out.output, 1, 24) = "Error running fastfetch:"
    /\ ("subprocess.run fastfetch" \in fn_out.calls) <=> FFSecondRun

\* update_fastfetch_text(output) is scheduled once, and runs once with it
FFScheduledOnce ==
    /\ scheduled[1] = 1
    /\ executed[1] \in {0, 1}
    /\ executed[1] = 0 =>
          idle = <<[cb |-> "update_fastfetch_text", arg |-> fn_out.output,
                    run |-> 1]>>
    /\ executed[1] = 1 =>
          /\ idle = <<>>
          /\ fastfetch_buffer = [text |-> fn_out.output, run |-> 1]

(* C11: one run_fastfetch yields one output by the decision sequence (first
   run's stdout verbatim on exit 0, else the second run's stdout cleaned on
   exit 0, else the failed message; timed out, not installed and error
   messages for the three kinds of exception), and update_fastfetch_text is
   scheduled exactly once with that output in every case. *)
C11_RunFastfetch ==
    /\ fn_pc = "ready" => (scheduled[1] = 0 /\ idle = <<>>)
    /\ fn_pc = "returned" => (FFDecision /\ FFScheduledOnce)

\* the second run's coloured output was cleaned and shown in the text pane
C11_Witness ==
    /\ fn_pc = "returned"
    /\ FFSecondRun
    /\ fn_in.o2.kind = "ok"
    /\ fn_out.output # fn_in.o2.stdout
    /\ executed[1] = 1
    /\ fastfetch_buffer.text = fn_out.output

---------------------------------------------------------------------------
(* C12: a gathering step raises *)

\* the steps of the try block of load_info, by the label of the row they add
GatheringOrder ==
    <<"Operating System", "Version ID", "Version Date", "Kernel",
      "Session Type", "Desktop Environment", "Window Manager", "Processor",
      "Graphics", "Memory", "Disk Usage", "Uptime">>

StepIndex(label) == CHOOSE k \in 1..Len(GatheringOrder) : GatheringOrder[k] = label

\* the labels of the rows the steps before the failing one add
LabelsBeforeFailure ==
    LET Earlier(label) == StepIndex(label) < StepIndex(machine.fails)
    IN  SelectSeq(ExpectedLabels, Earlier)

ErrorRows(rows) ==
    {k \in 1..Len(rows) :
        rows[k] = [label |-> "Error",
                   value |-> "Failed to load system information"]}

(* C12: when a gathering step raises, the load still completes: update_ui is
   scheduled exactly once, the rows of the earlier steps are kept in order, one
   Error row follows them and nothing follows it; the list never holds more
   than 12 rows, and once filled it holds an Error row exactly when a step
   raised. *)
C12_FailureKeepsRows ==
    /\ scheduled[1] <= 1
    /\ executed[1] <= scheduled[1]
    /\ threads[1].pc = "done" => scheduled[1] = 1
    /\ Len(info_listbox) <= 12
    /\ executed[1] = 1 =>
          /\ (ErrorRows(info_listbox) # {}) <=> (machine.fails # "none")
          /\ machine.fails # "none" =>
                /\ ErrorRows(info_listbox) = {Len(info_listbox)}
                /\ Labels(SubSeq(info_listbox, 1, Len(info_listbox) - 1))
                      = LabelsBeforeFailure

\* the GPU step raised after eight rows: they are shown, then the Error row
C12_Witness ==
    /\ machine.fails = "Graphics"
    /\ executed[1] = 1
    /\ Len(info_listbox) = 9
    /\ info_listbox[2].label = "Version ID"
    /\ info_listbox[8].label = "Processor"
    /\ info_listbox[9].label = "Error"

---------------------------------------------------------------------------
(* get_gpu_info *)

RECURSIVE StrSplit(_, _)
\* s.split(sep) for a one-character sep
StrSplit(s, sep) ==
    LET k == StrFind(s, sep)
    IN  IF k = 0 THEN <<s>>
        ELSE <<SubSeq(s, 1, k - 1)>> \o StrSplit(SubSeq(s, k + 1, Len(s)), sep)

RECURSIVE StrReplace(_, _, _)
\* s.replace(old, new): the occurrences of old from the left, not overlapping
StrReplace(s, old, new) ==
    LET k == StrFind(s, old)
    IN  IF k = 0 THEN s
        ELSE SubSeq(s, 1, k - 1) \o new
             \o StrReplace(SubSeq(s, k + Len(old), Len(s)), old, new)

\* line.split(':', 2)[-1]: what follows the second colon, or the only one
SplitColonLast(line) ==
    LET rest == SubSeq(line, StrFind(line, ":") + 1, Len(line))
    IN  SubSeq(rest, StrFind(rest, ":") + 1, Len(rest))

\* gpu_part[gpu_part.find('[')+1 : gpu_part.find(']')]
BracketContent(gpu_part) ==
    LET first == StrFind(gpu_part, "[") + 1
        last == StrFind(gpu_part, "]") - 1
    IN  IF first <= last THEN SubSeq(gpu_part, first, last) ELSE ""

HasBrackets(gpu_part) == StrContains(gpu_part, "[") /\ StrContains(gpu_part, "]")

\* the body of the inner if: the GPU name a matching line gives
GpuNameOf(line) ==
    LET p1 == StrStrip(SplitColonLast(line))
        p2 == StrReplace(StrReplace(StrReplace(p1,
                    "VGA compatible controller: ", ""),
                    "Display controller: ", ""),
                    "3D controller: ", "")
        p3 == IF StrContains(p2, "(rev")
              THEN StrStrip(SubSeq(p2, 1, StrFind(p2, "(rev") - 1))
              ELSE p2
    IN  IF StrContains(p3, "NVIDIA Corporation")
        THEN LET p4 == StrReplace(p3, "NVIDIA Corporation ", "")
             IN  IF HasBrackets(p4) THEN BracketContent(p4) ELSE p4
        ELSE IF StrContains(p3, "AMD") \/ StrContains(p3, "Advanced Micro Devices")
        THEN LET p4 == StrReplace(StrReplace(p3,
                          "Advanced Micro Devices, Inc. ", ""), "AMD ", "")
             IN  IF HasBrackets(p4) THEN BracketContent(p4) ELSE p4
        ELSE IF StrContains(p3, "Intel")
        THEN StrReplace(p3, "Intel Corporation ", "")
        ELSE p3

\* if 'VGA' in line or 'Display' in line or '3D' in line: if ':' in line:
GpuLine(line) ==
    /\ StrContains(line, "VGA") \/ StrContains(line, "Display")
          \/ StrContains(line, "3D")
    /\ StrContains(line, ":")

RECURSIVE GpuNameFrom_NoBreak(_, _, _)
\* a mutant: the loop has no break, so the last matching line gives the name
GpuNameFrom_NoBreak(lines, i, gpu_name) ==
    IF i > Len(lines) THEN gpu_name
    ELSE IF GpuLine(lines[i])
    THEN GpuNameFrom_NoBreak(lines, i + 1, GpuNameOf(lines[i]))
    ELSE GpuNameFrom_NoBreak(lines, i + 1, gpu_name)

RECURSIVE GpuNameFrom(_, _, _)
\* the for loop over the lines of lspci from the i-th on, ended by the break
GpuNameFrom(lines, i, gpu_name) ==
    IF i > Len(lines) THEN gpu_name
    ELSE IF GpuLine(lines[i]) THEN GpuNameOf(lines[i])
    ELSE GpuNameFrom(lines, i + 1, gpu_name)

(* One driver probe in its try block: the driver it names (<<>>: None), and
   whether its exception leaves the function. *)
NvidiaProbe(o) ==
    IF Raises(o) THEN [driver |-> <<>>, raised |-> ~Caught(o.kind)]
    ELSE IF o.kind = "ok" /\ StrStrip(o.stdout) # ""
    THEN [driver |-> <<"NVIDIA " \o StrStrip(o.stdout)>>, raised |-> FALSE]
    ELSE [driver |-> <<>>, raised |-> FALSE]

ModinfoProbe(o, name) ==
    IF Raises(o) THEN [driver |-> <<>>, raised |-> ~Caught(o.kind)]
    ELSE IF o.kind = "ok" THEN [driver |-> <<name>>, raised |-> FALSE]
    ELSE [driver |-> <<>>, raised |-> FALSE]

GpuRaised(cmds) == [value |-> "", name |-> "", driver |-> <<>>, cmds |-> cmds,
                    raised |-> TRUE]

(* get_gpu_info from the outcomes of lspci, nvidia-smi, modinfo amdgpu and
   modinfo i915: the value returned, the name and driver it is made of, the
   commands run in order, and whether an exception left the function. *)
get_gpu_info(lspci, nvidia, amdgpu, i915) ==
    IF Raises(lspci) /\ ~Caught(lspci.kind) THEN GpuRaised(<<"lspci">>)
    ELSE
    LET gpu_name == IF lspci.kind = "ok"
                    THEN GpuNameFrom(StrSplit(lspci.stdout, "\n"), 1, Unknown)
                    ELSE Unknown
        nv == NvidiaProbe(nvidia)
        amd == ModinfoProbe(amdgpu, "AMDGPU")
        intel == ModinfoProbe(i915, "Intel i915")
        Result(driver, cmds) ==
            [value |-> IF Truthy(driver)
                       THEN gpu_name \o " (" \o driver[1] \o ")"
                       ELSE gpu_name,
             name |-> gpu_name, driver |-> driver, cmds |-> cmds,
             raised |-> FALSE]
    IN  IF nv.raised THEN GpuRaised(<<"lspci", "nvidia-smi">>)
        ELSE IF Truthy(nv.driver)
        THEN Result(nv.driver, <<"lspci", "nvidia-smi">>)
        ELSE IF amd.raised
        THEN GpuRaised(<<"lspci", "nvidia-smi", "modinfo amdgpu">>)
        ELSE IF Truthy(amd.driver)
        THEN Result(amd.driver, <<"lspci", "nvidia-smi", "modinfo amdgpu">>)
        ELSE IF intel.raised
        THEN GpuRaised(<<"lspci", "nvidia-smi", "modinfo amdgpu", "modinfo i915">>)
        ELSE Result(intel.driver,
                    <<"lspci", "nvidia-smi", "modinfo amdgpu", "modinfo i915">>)

\* the most lines an lspci listing holds in the check
MaxLspciLines == 2

\* the lines lspci may print
LspciLines ==
    {"00:00.0 Host bridge: Intel Corporation Device 9b61",
     "00:02.0 VGA compatible controller: Intel Corporation UHD Graphics 620 (rev 07)",
     "01:00.0 3D controller: NVIDIA Corporation GP107M [GeForce GTX 1050 Mobile] (rev a1)",
     "03:00.0 Display controller: Advanced Micro Devices, Inc. [AMD/ATI] Navi 23",
     "VGA arbitration enabled"}

RECURSIVE JoinLines(_)
JoinLines(lines) ==
    IF lines = <<>> THEN ""
    ELSE Head(lines) \o "\n" \o JoinLines(Tail(lines))

LspciOutcomes ==
    {[kind |-> "ok", lines |-> l, stdout |-> JoinLines(l)] :
        l \in UNION {[1..n -> LspciLines] : n \in 0..MaxLspciLines}}
    \cup {[kind |-> "fail", lines |-> <<>>, stdout |-> ""]}
    \cup {[kind |-> k, lines |-> <<>>, stdout |-> ""] : k \in ExceptionKinds}

NvidiaOutcomes ==
    {[kind |-> "ok", stdout |-> "535.154.05\n"], [kind |-> "ok", stdout |-> "\n"],
     [kind |-> "fail", stdout |-> ""], [kind |-> "missing", stdout |-> ""],
     [kind |-> "denied", stdout |-> ""]}

AmdgpuOutcomes ==
    {[kind |-> k, stdout |-> ""] : k \in {"ok", "fail", "timeout", "denied"}}

I915Outcomes ==
    {[kind |-> k, stdout |-> ""] : k \in {"ok", "fail", "missing", "denied"}}

InitGPU ==
    /\ NoWidget
    /\ fn_pc = "ready"
    /\ fn_in \in [lspci : LspciOutcomes, nvidia : NvidiaOutcomes,
                  amdgpu : AmdgpuOutcomes, i915 : I915Outcomes]
    /\ fn_out = [value |-> "", name |-> "", driver |-> <<>>, cmds |-> <<>>,
                 raised |-> FALSE]

CallGPU ==
    /\ fn_pc = "ready"
    /\ fn_out' = get_gpu_info(fn_in.lspci, fn_in.nvidia, fn_in.amdgpu, fn_in.i915)
    /\ fn_pc' = "returned"
    /\ UNCHANGED <<fn_in, widget_vars, loop_vars, hist_vars>>

NextGPU == CallGPU

SpecGPU == InitGPU /\ [][NextGPU]_vars

---------------------------------------------------------------------------
(* C13: get_gpu_info *)

\* the lines of the listing that name a GPU: a keyword and a colon
GpuMatching ==
    {k \in 1..Len(fn_in.lspci.lines) :
        /\ \E w \in {"VGA", "Display", "3D"} : StrContains(fn_in.lspci.lines[k], w)
        /\ StrContains(fn_in.lspci.lines[k], ":")}

GpuFirstMatching == CHOOSE k \in GpuMatching : \A j \in GpuMatching : k <= j

\* every command exits, is missing or times out
GpuCommandsFailSoftly ==
    \A o \in {fn_in.lspci, fn_in.nvidia, fn_in.amdgpu, fn_in.i915} :
        o.kind \in {"ok", "fail", "missing", "timeout"}

\* the probes that succeed: nvidia-smi needs exit 0 and a version on stdout
GpuNvidiaOk ==
    /\ fn_in.nvidia.kind = "ok"
    /\ \E c \in 1..Len(fn_in.nvidia.stdout) : ~IsSpace(CharAt(fn_in.nvidia.stdout, c))
GpuAmdOk == fn_in.amdgpu.kind = "ok"
GpuIntelOk == fn_in.i915.kind = "ok"

GpuExpectedName ==
    IF fn_in.lspci.kind = "ok" /\ GpuMatching # {}
    THEN GpuNameOf(fn_in.lspci.lines[GpuFirstMatching])
    ELSE "Unknown"

GpuExpectedProbes ==
    <<"nvidia-smi">>
    \o (IF GpuNvidiaOk THEN <<>> ELSE <<"modinfo amdgpu">>)
    \o (IF GpuNvidiaOk \/ GpuAmdOk THEN <<>> ELSE <<"modinfo i915">>)

(* C13: the name comes from the first lspci line with 'VGA', 'Display' or '3D'
   and a colon, and is 'Unknown' when lspci fails or has none; the drivers are
   probed in the order nvidia-smi, modinfo amdgpu, modinfo i915 and the first
   probe that succeeds labels the result, later ones being skipped; the
   result is '<name> (<driver>)' or '<name>'; failing, missing and timed-out
   commands raise nothing. *)
C13_GpuInfo ==
    (fn_pc = "returned" /\ GpuCommandsFailSoftly) =>
        /\ ~fn_out.raised
        /\ fn_out.name = GpuExpectedName
        /\ fn_out.cmds = <<"lspci">> \o GpuExpectedProbes
        /\ IF GpuNvidiaOk
           THEN /\ SubSeq(fn_out.value, 1, Len(fn_out.name) + 9)
                      = fn_out.name \o " (NVIDIA "
                /\ CharAt(fn_out.value, Len(fn_out.value)) = ")"
           ELSE IF GpuAmdOk THEN fn_out.value = fn_out.name \o " (AMDGPU)"
           ELSE IF GpuIntelOk THEN fn_out.value = fn_out.name \o " (Intel i915)"
           ELSE fn_out.value = fn_out.name

(* two GPUs are listed and the first one gives the name; nvidia-smi is missing
   and amdgpu is there, so i915 is not probed *)
C13_Witness ==
    /\ fn_pc = "returned"
    /\ GpuCommandsFailSoftly
    /\ Cardinality(GpuMatching) = 2
    /\ fn_in.nvidia.kind = "missing"
    /\ fn_out.value = "GeForce GTX 1050 Mobile (AMDGPU)"
    /\ fn_out.cmds = <<"lspci", "nvidia-smi", "modinfo amdgpu">>

---------------------------------------------------------------------------
(* C14: clean_fastfetch_output *)

\* the most pieces a text is made of in the check
MaxPieces == 4

\* the pieces: the sequence introducer, its parts, and ordinary characters
TextPieces == {"^[", "[", "m", "A", "1", ";", "x"}

RECURSIVE TextsOf(_)
\* the texts made of at most n pieces
TextsOf(n) ==
    IF n = 0 THEN {""}
    ELSE LET shorter == TextsOf(n - 1)
         IN  shorter \cup {t \o p : t \in shorter, p \in TextPieces}

InitClean ==
    /\ NoWidget
    /\ fn_pc = "ready"
    /\ fn_in \in TextsOf(MaxPieces)
    /\ fn_out = ""

CallClean ==
    /\ fn_pc = "ready"
    /\ fn_out' = clean_fastfetch_output(fn_in)
    /\ fn_pc' = "returned"
    /\ UNCHANGED <<fn_in, widget_vars, loop_vars, hist_vars>>

NextClean == CallClean

SpecClean == InitClean /\ [][NextClean]_vars

(* s[i..j] is an SGR colour sequence (ESC [ digits-and-semicolons m) or a
   cursor-movement sequence (ESC [ digits, then A, B, C, D or G) *)
AnsiSequence(s, i, j) ==
    /\ i + 2 <= j /\ j <= Len(s)
    /\ CharAt(s, i) = "^" /\ CharAt(s, i + 1) = "["
    /\ \/ /\ CharAt(s, j) = "m"
          /\ \A k \in (i + 2)..(j - 1) :
                CharAt(s, k) \in {"0", "1", "2", "3", "4", "5", "6", "7", "8",
                                  "9", ";"}
       \/ /\ CharAt(s, j) \in {"A", "B", "C", "D", "G"}
          /\ \A k \in (i + 2)..(j - 1) :
                CharAt(s, k) \in {"0", "1", "2", "3", "4", "5", "6", "7", "8",
                                  "9"}

HasAnsiSequence(s) == \E i \in 1..Len(s), j \in 1..Len(s) : AnsiSequence(s, i, j)

\* the positions of s inside one of its sequences
InAnsiSequence(s) ==
    {k \in 1..Len(s) :
        \E i \in 1..k, j \in k..Len(s) : AnsiSequence(s, i, j)}

RECURSIVE KeepOutside(_, _, _)
\* the characters of s from position k on whose position is not in drop
KeepOutside(s, k, drop) ==
    IF k > Len(s) THEN ""
    ELSE (IF k \in drop THEN "" ELSE CharAt(s, k)) \o KeepOutside(s, k + 1, drop)

CleanNoSequenceLeft == ~HasAnsiSequence(fn_out)
CleanOthersPreserved == fn_out = KeepOutside(fn_in, 1, InAnsiSequence(fn_in))
CleanPlainUnchanged == ~HasAnsiSequence(fn_in) => fn_out = fn_in
CleanIdempotent == clean_fastfetch_output(fn_out) = fn_out

(* C14: for every text the result of clean_fastfetch_output holds no SGR and
   no cursor-movement sequence, every other character is kept in order, a text
   without such a sequence comes back unchanged, and cleaning the result
   again changes nothing. *)
C14_CleansEveryText ==
    fn_pc = "returned" =>
        /\ CleanNoSequenceLeft
        /\ CleanOthersPreserved
        /\ CleanPlainUnchanged
        /\ CleanIdempotent

---------------------------------------------------------------------------
(* C15: overlapping text-mode loads *)

\* the run_fastfetch threads, by the order they were started in
FastfetchRuns == {i \in 1..Len(threads) : threads[i].target = "run_fastfetch"}

LatestFastfetchRun == CHOOSE i \in FastfetchRuns : \A j \in FastfetchRuns : j <= i

(* C15: in text mode, once every started thread has finished and its callback
   has run, the text pane shows the result of the most recently started load
   and not the loading text. *)
C15_LatestLoadShown ==
    (has_buffer /\ FastfetchRuns # {} /\ Quiescent) =>
        /\ fastfetch_buffer.text # "Loading fastfetch output..."
        /\ fastfetch_buffer.run = LatestFastfetchRun

---------------------------------------------------------------------------
(* C16: the rendering mode *)

\* terminal_available never goes from False to True
TerminalOnlyDegrades == [][terminal_available' => terminal_available]_vars

\* a click that starts a load takes the VTE path exactly when the terminal
\* is available, and the text path (a run_fastfetch thread) when it is not
LoadFollowsMode ==
    [][(ff_loads' = ff_loads + 1) =>
          /\ terminal_available =>
                \/ terminal'.child = "running"
                \/ ~terminal_available'
          /\ ~terminal_available =>
                /\ Len(threads') = Len(threads) + 1
                /\ threads'[Len(threads')].target = "run_fastfetch"
                /\ terminal' = terminal]_vars

(* C16: whenever terminal_available is False the text buffer exists, so every
   load that takes the text path has a buffer to write its result to. *)
C16_TextPathHasBuffer ==
    /\ ~terminal_available => has_buffer
    /\ (\E i \in 1..Len(threads) : threads[i].target = "run_fastfetch")
          => has_buffer

=============================================================================
